---- MODULE Spec2Model ----
(***************************************************************************)
(* Stacked generalization in src/regression.py: stack_models,              *)
(* create_stacknet, finalize_model and predict_model, as a state machine   *)
(* over the module-level tables (X, y, X_train, y_train, X_test), the      *)
(* experiment log experiment__ and the estimator objects the caller holds. *)
(*                                                                         *)
(* Estimators are objects on a heap (est): fit() changes the object in     *)
(* place and returns it, as the estimators this module accepts do, so two  *)
(* references to one object see the same fitted state.  A fitted state is  *)
(* the table the object was last fit on: its columns, its row positions    *)
(* and the data set the rows came from.  predict() accepts a table exactly *)
(* when it has as many columns as the table of the last fit.               *)
(***************************************************************************)
EXTENDS Integers, Sequences, FiniteSets, TLC

VARIABLES ver, est, experiment__, tr, fm, pm, ret, hist, plog, script, held, ops, kfold, frames

vars == <<ver, est, experiment__, tr, fm, pm, ret, hist, plog, script, held, ops, kfold, frames>>

(* ------------------------------ bounds --------------------------------- *)

\* F: number of raw feature columns of X
NumFeatures == 2
\* rows of X_train and of the hold-out X_test; X has both
NTrain == 7
NHold == 3
\* longest estimator list of one level, and most levels of a stack net
MaxPerLevel == 4
MaxLevels == 2
\* largest fold argument a caller passes
MaxFold == 3
\* most rows of a table folds are derived over on their own
MaxRows == 12

(* --------------------------- program constants ------------------------- *)

\* fold = 10 in the signatures of stack_models and create_stacknet
DefaultFold == 10

NAll == NTrain + NHold

\* the objects the caller holds before stacking, by type: three estimators
\* made by create_model, an sklearn transformer (fit, no predict), a
\* regressor class of the caller's own (fit and predict, no library name)
\* and two more CatBoost estimators, not fit yet
PoolTypes == <<"Ridge", "CatBoostRegressor", "Lasso", "StandardScaler", "MyRegressor",
               "CatBoostRegressor", "CatBoostRegressor">>

Pool == 1..Len(PoolTypes)

\* the estimators create_model made
Trained == {1, 2, 3}

\* the fold arguments a caller passes: any int passes the check of the
\* argument, so one below 2 and one above the number of training rows too
FoldArgs == (1..MaxFold) \cup {NTrain + 1}

(* ------------------------------ tables --------------------------------- *)

\* a column: its label (typ, tag, lvl, pos; lvl = -1 and tag = "" when the
\* label has no such part) and, as history, the place (byl, byp) in the
\* container of the estimator whose predictions it holds (-1 for raw)
Col(typ, tag, lvl, pos, byl, byp) ==
    [typ |-> typ, tag |-> tag, lvl |-> lvl, pos |-> pos, byl |-> byl, byp |-> byp]

Label(c) == <<c.typ, c.tag, c.lvl, c.pos>>

Labels(t) == [i \in 1..Len(t) |-> Label(t[i])]

RawCols == [i \in 1..NumFeatures |-> Col("feature", "", -1, i, -1, -1)]

\* pd.DataFrame(array): one column labelled 0
Unnamed(byl, byp) == Col("0", "", -1, 0, byl, byp)

Relabel(c, typ, tag, lvl, pos) == Col(typ, tag, lvl, pos, c.byl, c.byp)

NRows(data) == IF data[2] = "train" THEN NTrain
               ELSE IF data[2] = "full" THEN NAll ELSE NHold

AllRows(n) == 0..(n - 1)

\* a table as far as its rows go: the data set it was taken from and its
\* index, the row labels in row order
Frame(v, index) == [ver |-> v, index |-> index]

NoFrame == Frame(0, <<>>)

\* the order train_test_split(X, y, random_state = seed) puts the rows of
\* data set v in: a shuffle of the row labels of X
SplitOrder(v) == [i \in 1..NAll |-> (NAll - i + v) % NAll]

\* the module tables setup() leaves for data set v, and the names data_X
\* and data_y of the training functions, not bound yet
SetupFrames(v) ==
    [X |-> Frame(v, [i \in 1..NAll |-> i - 1]),
     y |-> Frame(v, [i \in 1..NAll |-> i - 1]),
     X_train |-> Frame(v, SubSeq(SplitOrder(v), 1, NTrain)),
     y_train |-> Frame(v, SubSeq(SplitOrder(v), 1, NTrain)),
     X_test |-> Frame(v, SubSeq(SplitOrder(v), NTrain + 1, NAll)),
     y_test |-> Frame(v, SubSeq(SplitOrder(v), NTrain + 1, NAll)),
     data_X |-> NoFrame, data_y |-> NoFrame]

\* reset_index(drop = True): the rows keep their order and are labelled 0.., 
ResetIndex(t) == [t EXCEPT !.index = [i \in 1..Len(t.index) |-> i - 1]]

\* data_X = X; data_y = y without the copy: reset_index(inplace = True)
\* relabels the module table the names are bound to
DataAliased(f, finalize) ==
    IF finalize
    THEN [f EXCEPT !.data_X = ResetIndex(f.X), !.data_y = ResetIndex(f.y),
                   !.X = ResetIndex(f.X), !.y = ResetIndex(f.y)]
    ELSE [f EXCEPT !.data_X = ResetIndex(f.X_train), !.data_y = ResetIndex(f.y_train),
                   !.X_train = ResetIndex(f.X_train), !.y_train = ResetIndex(f.y_train)]

\* data_X, data_y = copies of X, y or of X_train, y_train, then
\* reset_index(drop = True, inplace = True) on the copies
Data(f, finalize) ==
    IF finalize
    THEN [f EXCEPT !.data_X = ResetIndex(f.X), !.data_y = ResetIndex(f.y)]
    ELSE [f EXCEPT !.data_X = ResetIndex(f.X_train), !.data_y = ResetIndex(f.y_train)]

(* ----------------------------- estimators ------------------------------ *)

Unfit == [cols |-> <<>>, rows |-> {}, data |-> <<0, "none">>]

FitOn(cols, rows, data) == [cols |-> cols, rows |-> rows, data |-> data]

\* str(item).split("(")[0]
StrName(t) == IF t = "CatBoostRegressor"
              THEN "<catboost.core.CatBoostRegressor object>" ELSE t

\* 'CatBoostRegressor' in name
HasCat(s) == s \in {"CatBoostRegressor", "<catboost.core.CatBoostRegressor object>"}

CatFix(s) == IF HasCat(s) THEN "CatBoostRegressor" ELSE s

\* 'sklearn' in str(type(i)) or 'CatBoostRegressor' in str(type(i))
AcceptedType(t) ==
    t \in {"Ridge", "Lasso", "LinearRegression", "CatBoostRegressor", "StandardScaler"}

\* the object has a fit method, a predict method
HasFit(t) == t \in {"Ridge", "Lasso", "LinearRegression", "CatBoostRegressor",
                    "StandardScaler", "MyRegressor"}
HasPredict(t) == t \in {"Ridge", "Lasso", "LinearRegression", "CatBoostRegressor",
                        "MyRegressor"}

\* model.predict(table): the column count must be that of the last fit
Accepts(e, cols) == e.fit # Unfit /\ Len(e.fit.cols) = Len(cols)

\* model.fit(table, y) on object id
Fit(heap, id, cols, rows, data) ==
    [heap EXCEPT ![id].fit = FitOn(cols, rows, data)]

(* ------------------------------- folds --------------------------------- *)

\* blocks of n // k rows each, the n % k rows left over in no block
FoldSizeFloor(n, k, j) == n \div k

\* KFold(k) without shuffling over n rows: fold j (1..k) tests one block
FoldSize(n, k, j) == (n \div k) + (IF j <= n % k THEN 1 ELSE 0)

RECURSIVE FoldStart(_, _, _)
FoldStart(n, k, j) == IF j = 1 THEN 0
                      ELSE FoldStart(n, k, j - 1) + FoldSize(n, k, j - 1)

TestRows(n, k, j) == FoldStart(n, k, j)..(FoldStart(n, k, j) + FoldSize(n, k, j) - 1)

TrainRows(n, k, j) == AllRows(n) \ TestRows(n, k, j)

\* KFold and cross_val_predict refuse k < 2 and k > n
CVOk(n, k) == k >= 2 /\ k <= n

\* the blocks of fold j moved on by the seed, as a shuffle would
TestRowsShuffled(n, k, j, seed) == {(r + seed) % n : r \in TestRows(n, k, j)}

\* a partition that depends on the seed
KFoldSplitShuffled(n, k, seed) ==
    [j \in 1..k |-> [train |-> AllRows(n) \ TestRowsShuffled(n, k, j, seed),
                     test |-> TestRowsShuffled(n, k, j, seed)]]

\* KFold(k, random_state=seed).split over n rows: shuffle is False, so the
\* seed plays no part
KFoldSplit(n, k, seed) ==
    [j \in 1..k |-> [train |-> TrainRows(n, k, j), test |-> TestRows(n, k, j)]]

\* the folds cross_val_predict(cv=k) derives for a regressor: KFold(k)
CrossValPredictSplit(n, k) ==
    [j \in 1..k |-> [train |-> TrainRows(n, k, j), test |-> TestRows(n, k, j)]]

\* cross_val_predict fitting the object it was handed, fold after fold
CrossValPredictInPlace(heap, id, cols, folds, data) ==
    Fit(heap, id, cols, folds[Len(folds)].train, data)

\* cross_val_predict(estimator = id, ...): every fold fits a clone of the
\* object on the fold's training rows, the object itself is left as it is
CrossValPredict(heap, id, cols, folds, data) == heap

\* the seed setup() fixed for data set v
Seed(v) == v

\* a fold derivation on its own: over n rows in k folds, by KFold or by
\* cross_val_predict, j folds drawn so far with these test rows
Split(via, n, k) == [via |-> via, n |-> n, k |-> k, j |-> 0, tests |-> <<>>]

NoSplit == Split("none", 0, 0)

(* ----------------------------- containers ------------------------------ *)

EstE(i) == [k |-> "est", id |-> i, ids |-> <<>>, flag |-> FALSE]
LvlE(s) == [k |-> "level", id |-> 0, ids |-> s, flag |-> FALSE]
FlagE(b) == [k |-> "flag", id |-> 0, ids |-> <<>>, flag |-> b]

Range(s) == {s[i] : i \in 1..Len(s)}

RECURSIVE Flatten(_)
Flatten(ss) == IF ss = <<>> THEN <<>> ELSE Head(ss) \o Flatten(Tail(ss))

\* the estimator objects a container refers to
IdsOf(c) == UNION {IF c[i].k = "est" THEN {c[i].id}
                   ELSE IF c[i].k = "level" THEN Range(c[i].ids) ELSE {} : i \in 1..Len(c)}

Snap(heap, c) == [i \in IdsOf(c) |-> heap[i].fit]

\* sequences of distinct elements of S, of length lo..hi
Lists(S, lo, hi) ==
    {s \in UNION {[1..n -> S] : n \in lo..hi} : \A i, j \in 1..Len(s) : i # j => s[i] # s[j]}

(* ------------------------------- frames -------------------------------- *)

\* max_progress = len(estimator_list) + fold + 4
MaxProgress(estimator_list, fold) == Len(estimator_list) + fold + 4

TrIdle == [fn |-> "none", via |-> "none", pc |-> "idle", levels |-> <<>>, meta |-> 0,
           fold |-> 0, restack |-> FALSE, finalize |-> FALSE, data |-> <<0, "none">>,
           data_X |-> <<>>, preds |-> <<>>, inter |-> <<>>, names |-> <<>>,
           models_ |-> <<>>, inner |-> <<>>, counter |-> 0, inter_counter |-> 0,
           fold_num |-> 0, progress |-> 0, max_progress |-> 0, pre |-> <<>>, log |-> 0,
           kf |-> <<>>, oof |-> <<>>, scores |-> <<>>]

FmIdle == [pc |-> "idle", via |-> "none", estimator |-> <<>>, result |-> <<>>,
           pre |-> <<>>]

PmIdle == [pc |-> "idle", estimator |-> <<>>, model |-> <<>>, data |-> <<0, "none">>,
           given |-> FALSE, Xtest |-> <<>>, base |-> <<>>, combined |-> <<>>,
           last |-> <<>>, lvl |-> 0, tried |-> <<>>, used |-> <<>>, ref |-> 0,
           input |-> NoFrame, order |-> <<>>]

\* a stacking call as the caller made it: its arguments (meta = 0 for
\* meta_model = None), and the fitted states of the objects and the length
\* of the log when it was made
CallRec(levels, meta, fold, restack, finalize, pre, log) ==
    [levels |-> levels, meta |-> meta, fold |-> fold, restack |-> restack,
     finalize |-> finalize, pre |-> pre, log |-> log]

NoCall == CallRec(<<>>, 0, 0, FALSE, FALSE, <<>>, 0)

\* what the last user-level call gave back: its result or the exception
\* that left it, and for a stacking call the call made
NoRet == [op |-> "none", status |-> "none", val |-> <<>>, err |-> "none", call |-> NoCall]

\* the fitted state of every object
Fits(heap) == [i \in 1..Len(heap) |-> heap[i].fit]

Idle == tr.pc = "idle" /\ fm.pc = "idle" /\ pm.pc = "idle"

\* the session's next user-level operation is `kind`
NextOp(kind) == script # <<>> /\ Head(script) = kind

(* ------------------------- calls and exceptions ------------------------ *)

Entry(name, cont, rows) == [name |-> name, cont |-> cont, rows |-> rows]

\* the score grid logged before the container
LoggedGridFirst(log, name, grid_name, cont, grid) ==
    log \o <<Entry(grid_name, <<>>, grid), Entry(name, cont, <<>>)>>

\* experiment__.append((model_name, models_)), then
\* experiment__.append((model_name + ' Score Grid', model_results))
Logged(log, name, grid_name, cont, grid) ==
    log \o <<Entry(name, cont, <<>>), Entry(grid_name, <<>>, grid)>>

Returned(fn, via, cont, heap) == [fn |-> fn, via |-> via, cont |-> cont, snap |-> Snap(heap, cont)]

\* an exception leaves the training call.  via says who called: the user,
\* finalize_model called by the user ("finalize"), or finalize_model called
\* by predict_model ("predict"), whose bare except catches the exception
\* (model = estimator)
Failed(op, call, err) ==
    [op |-> op, status |-> "error", val |-> <<>>, err |-> err, call |-> call]

CallOf(f) == CallRec(f.levels, f.meta, f.fold, f.restack, f.finalize, f.pre, f.log)

Raise(op, via, err) ==
    /\ tr' = TrIdle
    /\ IF via = "user"
       THEN /\ ret' = Failed(op, CallOf(tr), err)
            /\ UNCHANGED <<fm, pm>>
       ELSE IF via = "finalize"
       THEN /\ ret' = Failed("finalize_model", CallOf(tr), err)
            /\ fm' = FmIdle
            /\ UNCHANGED pm
       ELSE /\ fm' = FmIdle
            /\ pm' = [pm EXCEPT !.model = pm.estimator, !.pc = "base"]
            /\ UNCHANGED ret

\* the training call goes on with frame f
Continue(f) == tr' = f /\ UNCHANGED <<fm, pm, ret>>

\* return models_ to whoever called: the user, or finalize_model
Return(op, via, cont) ==
    /\ tr' = TrIdle
    /\ IF via = "user"
       THEN /\ ret' = [op |-> op, status |-> "ok", val |-> cont, err |-> "none",
                        call |-> CallOf(tr)]
            /\ UNCHANGED <<fm, pm>>
       ELSE /\ fm' = [fm EXCEPT !.pc = "ret", !.result = cont]
            /\ UNCHANGED <<pm, ret>>


(* ----------------------------- stack_models ---------------------------- *)

\* model_names_fixed: <type name>_<counter>
SMNames(heap, list) ==
    [i \in 1..Len(list) |-> <<CatFix(StrName(heap[list[i]].typ)), i - 1>>]

\* the checks at the head of stack_models
SMArgsOk(heap, list, metaArg) ==
    /\ \A i \in 1..Len(list) : AcceptedType(heap[list[i]].typ)
    /\ metaArg # 0 => AcceptedType(heap[metaArg].typ)

\* stack_models up to the loop over estimator_list, on heap h; sys.exit when
\* an argument is refused
SMEnter(h, list, metaArg, fold, restack, finalize, via) ==
    IF ~SMArgsOk(h, list, metaArg)
    THEN /\ est' = h
         /\ ops' = {}
         /\ tr' = TrIdle
         /\ frames' = frames
    ELSE LET heap == IF metaArg = 0
                     THEN Append(h, [typ |-> "LinearRegression", fit |-> Unfit])
                     ELSE h
             meta == IF metaArg = 0 THEN Len(h) + 1 ELSE metaArg
         IN /\ est' = heap
            /\ ops' = {}
            /\ frames' = Data(frames, finalize)
            /\ tr' = ([TrIdle EXCEPT
                   !.fn = "stack_models", !.via = via, !.pc = "base",
                   !.levels = <<list>>, !.meta = meta, !.fold = fold,
                   !.restack = restack, !.finalize = finalize,
                   !.data = <<ver, IF finalize THEN "full" ELSE "train">>,
                   !.data_X = RawCols, !.names = SMNames(heap, list),
                   !.progress = 1, !.max_progress = MaxProgress(list, fold),
                   !.pre = Fits(h), !.log = Len(experiment__)])

StackModelsCall ==
    /\ Idle /\ NextOp("train")
    /\ \E list \in Lists(held, 1, MaxPerLevel), metaArg \in {0} \cup held,
          fold \in FoldArgs, restack \in BOOLEAN, finalize \in BOOLEAN :
         /\ metaArg \notin Range(list)
         /\ SMEnter(est, list, metaArg, fold, restack, finalize, "user")
         /\ ret' = IF SMArgsOk(est, list, metaArg) THEN ret
                   ELSE Failed("stack_models",
                               CallRec(<<list>>, metaArg, fold, restack, finalize,
                                       Fits(est), Len(experiment__)),
                               "SystemExit")
    /\ UNCHANGED <<fm, pm>>
    /\ script' = Tail(script)
    /\ UNCHANGED <<ver, experiment__, hist, plog, held, kfold>>

\* one turn of "for model in estimator_list"
SMBase ==
    /\ tr.fn = "stack_models" /\ tr.pc = "base"
    /\ LET list == tr.levels[1]
           i == tr.counter + 1
           n == NRows(tr.data)
       IN /\ est' = CrossValPredict(Fit(est, list[i], tr.data_X, AllRows(n), tr.data),
                                  list[i], tr.data_X,
                                  CrossValPredictSplit(n, tr.fold), tr.data)
          /\ IF CVOk(n, tr.fold) /\ ~HasPredict(est[list[i]].typ)
             THEN \* getattr(estimator, 'predict') in cross_val_predict: AttributeError
                  /\ ops' = {"fit", "split", "clone_fit"}
                  /\ Raise("stack_models", tr.via, "AttributeError")
             ELSE IF CVOk(n, tr.fold)
             THEN /\ ops' = {"fit", "split", "clone_fit", "predict"}
                  /\ Continue([tr EXCEPT
                         !.models_ = Append(@, EstE(list[i])),
                         !.progress = @ + 1,
                         !.preds = Append(@, Unnamed(0, tr.counter)),
                         !.oof = Append(@, CrossValPredictSplit(n, tr.fold)),
                         !.counter = @ + 1,
                         !.pc = IF i = Len(list) THEN "assemble" ELSE "base"])
             ELSE \* cross_val_predict: ValueError
                  /\ ops' = {"fit", "split"}
                  /\ Raise("stack_models", tr.via, "ValueError")
    /\ UNCHANGED <<ver, experiment__, hist, plog, script, held, kfold, frames>>

\* base_prediction.columns = model_names
SMNamed(preds, names) ==
    [i \in 1..Len(preds) |-> Relabel(preds[i], names[i][1], "", -1, names[i][2])]

\* the table the meta model is fit on
SMMetaTable(data_X, base_prediction, restack) ==
    IF restack THEN data_X \o base_prediction ELSE base_prediction

\* name the columns, assemble data_X, fit the meta model, build KFold
SMAssemble ==
    /\ tr.fn = "stack_models" /\ tr.pc = "assemble"
    /\ LET table == SMMetaTable(tr.data_X, SMNamed(tr.preds, tr.names), tr.restack)
       IN /\ est' = Fit(est, tr.meta, table, AllRows(NRows(tr.data)), tr.data)
          /\ ops' = {"fit"}
          /\ Continue([tr EXCEPT
                 !.preds = SMNamed(tr.preds, tr.names),
                 !.data_X = table,
                 !.models_ = Append(@, EstE(tr.meta)),
                 !.kf = KFoldSplit(NRows(tr.data), tr.fold, Seed(tr.data[1])),
                 !.progress = @ + 1, !.fold_num = 1, !.pc = "cv"])
    /\ UNCHANGED <<ver, experiment__, hist, plog, script, held, kfold, frames>>

\* the columns of a score grid
ScoreCols == <<"MAE", "MSE", "RMSE", "R2", "ME">>

\* the scores of one cross-validation round: the metrics of the predictions
\* for the round's test rows by the model fit on its training rows
FoldScore(fit, test) == [index |-> "fold", cols |-> ScoreCols, fit |-> fit, test |-> test]

\* a summary row over n per-fold rows
Summary(index, n) == [index |-> index, cols |-> ScoreCols, fit |-> {}, test |-> 1..n]

\* the summary rows put before the per-fold rows
ScoreGridSummaryFirst(scores) ==
    <<Summary("Mean", Len(scores)), Summary("SD", Len(scores))>> \o scores

\* model_results.append(model_avgs): the per-fold rows, then Mean and SD
ScoreGrid(scores) ==
    scores \o <<Summary("Mean", Len(scores)), Summary("SD", Len(scores))>>

\* the estimator the cross-validation loop fits
SMCvModel(f) == f.meta

\* one turn of "for train_i, test_i in kf.split(data_X, data_y)"; after the
\* last turn the summary rows and the last progress.value += 1
SMCv ==
    /\ tr.fn = "stack_models" /\ tr.pc = "cv"
    /\ est' = Fit(est, SMCvModel(tr), tr.data_X, tr.kf[tr.fold_num].train, tr.data)
    /\ IF ~HasPredict(est[SMCvModel(tr)].typ)
       THEN \* model.predict(Xtest): AttributeError
            /\ ops' = {"fit"}
            /\ Raise("stack_models", tr.via, "AttributeError")
       ELSE /\ ops' = {"fit", "predict"}
            /\ Continue([tr EXCEPT
                   !.progress = IF tr.fold_num = tr.fold THEN @ + 2 ELSE @ + 1,
                   !.fold_num = @ + 1,
                   !.scores = Append(@, FoldScore(tr.kf[tr.fold_num].train,
                                                  tr.kf[tr.fold_num].test)),
                   !.pc = IF tr.fold_num = tr.fold THEN "finish" ELSE "cv"])
    /\ UNCHANGED <<ver, experiment__, hist, plog, script, held, kfold, frames>>

\* models_ with the restack flag put first
SMContainerFlagFirst(models_, restack) == <<FlagE(restack)>> \o models_

\* models_.append(restack)
SMContainer(models_, restack) == Append(models_, FlagE(restack))

\* models_.append(restack), the two log entries, return models_
SMFinish ==
    /\ tr.fn = "stack_models" /\ tr.pc = "finish"
    /\ LET cont == SMContainer(tr.models_, tr.restack)
       IN /\ experiment__' = Logged(experiment__, "Stacking Regressor (Single Layer)",
                                    "Stacking Regressor (Single Layer) Score Grid",
                                    cont, ScoreGrid(tr.scores))
          /\ hist' = Append(hist, Returned("stack_models", tr.via, cont, est))
          /\ Return("stack_models", tr.via, cont)
    /\ ops' = {}
    /\ UNCHANGED <<ver, est, plog, script, held, kfold, frames>>

(* ---------------------------- create_stacknet -------------------------- *)

\* the names of str(item).split("(")[0] over a level
LevelStrNames(heap, level) == [i \in 1..Len(level) |-> StrName(heap[level[i]].typ)]

RECURSIVE CatOnly(_)
CatOnly(names) ==
    IF names = <<>> THEN <<>>
    ELSE (IF HasCat(Head(names)) THEN <<"CatBoostRegressor">> ELSE <<>>) \o CatOnly(Tail(names))

\* base_level_fixed after "for i in base_level_names: if ...: append(a)" and
\* the else clause, which belongs to the for statement: it runs once, after
\* the loop, and appends the last name
CSBaseFixed(names) == CatOnly(names) \o <<names[Len(names)]>>

\* base_level_fixed_2: <name>_BaseLevel_<counter>
CSBaseNames(heap, level) ==
    LET fixed == CSBaseFixed(LevelStrNames(heap, level))
    IN [i \in 1..Len(fixed) |-> <<fixed[i], i - 1>>]

\* col = <type name>_InterLevel_<inter_counter>_<model_counter>
CSInterCol(c, typ, inter_counter, model_counter) ==
    Relabel(c, CatFix(StrName(typ)), "InterLevel", inter_counter, model_counter)

CSArgsOk(heap, levels, metaArg) ==
    /\ \A i \in 1..Len(levels) : \A j \in 1..Len(levels[i]) :
           AcceptedType(heap[levels[i][j]].typ)
    /\ metaArg # 0 => AcceptedType(heap[metaArg].typ)

\* create_stacknet up to the loop over base_level, on heap h; sys.exit when
\* an argument is refused
CSEnter(h, levels, metaArg, fold, restack, finalize, via) ==
    IF ~CSArgsOk(h, levels, metaArg)
    THEN /\ est' = h
         /\ ops' = {}
         /\ tr' = TrIdle
         /\ frames' = frames
    ELSE LET heap == IF metaArg = 0
                     THEN Append(h, [typ |-> "LinearRegression", fit |-> Unfit])
                     ELSE h
             meta == IF metaArg = 0 THEN Len(h) + 1 ELSE metaArg
         IN /\ est' = heap
            /\ ops' = {}
            /\ frames' = Data(frames, finalize)
            /\ tr' = ([TrIdle EXCEPT
                   !.fn = "create_stacknet", !.via = via, !.pc = "base",
                   !.levels = levels, !.meta = meta, !.fold = fold,
                   !.restack = restack, !.finalize = finalize,
                   !.data = <<ver, IF finalize THEN "full" ELSE "train">>,
                   !.data_X = RawCols, !.names = CSBaseNames(heap, levels[1]),
                   !.progress = 1, !.max_progress = MaxProgress(levels, fold),
                   !.pre = Fits(h), !.log = Len(experiment__)])

\* estimator lists of 1..MaxLevels levels, no object used twice
Nets(S) == {ls \in UNION {[1..n -> Lists(S, 1, MaxPerLevel)] : n \in 1..MaxLevels} :
            Cardinality(Range(Flatten(ls))) = Len(Flatten(ls))}

CreateStacknetCall ==
    /\ Idle /\ NextOp("train")
    /\ \E levels \in Nets(held), metaArg \in {0} \cup held,
          fold \in FoldArgs, restack \in BOOLEAN, finalize \in BOOLEAN :
         /\ metaArg \notin Range(Flatten(levels))
         /\ CSEnter(est, levels, metaArg, fold, restack, finalize, "user")
         /\ ret' = IF CSArgsOk(est, levels, metaArg) THEN ret
                   ELSE Failed("create_stacknet",
                               CallRec(levels, metaArg, fold, restack, finalize,
                                       Fits(est), Len(experiment__)),
                               "SystemExit")
    /\ UNCHANGED <<fm, pm>>
    /\ script' = Tail(script)
    /\ UNCHANGED <<ver, experiment__, hist, plog, held, kfold>>

\* one turn of "for model in base_level"
CSBase ==
    /\ tr.fn = "create_stacknet" /\ tr.pc = "base"
    /\ LET level == tr.levels[1]
           i == tr.counter + 1
           n == NRows(tr.data)
       IN /\ est' = CrossValPredict(Fit(est, level[i], tr.data_X, AllRows(n), tr.data),
                                  level[i], tr.data_X,
                                  CrossValPredictSplit(n, tr.fold), tr.data)
          /\ IF tr.counter >= Len(tr.names)
             THEN \* base_level_names[base_counter]: IndexError
                  /\ ops' = {"fit"}
                  /\ Raise("create_stacknet", tr.via, "IndexError")
             ELSE IF ~CVOk(n, tr.fold)
             THEN /\ ops' = {"fit", "split"}
                  /\ Raise("create_stacknet", tr.via, "ValueError")
             ELSE IF ~HasPredict(est[level[i]].typ)
             THEN /\ ops' = {"fit", "split", "clone_fit"}
                  /\ Raise("create_stacknet", tr.via, "AttributeError")
             ELSE /\ ops' = {"fit", "split", "clone_fit", "predict"}
                  /\ Continue([tr EXCEPT
                         !.inner = Append(@, level[i]),
                         !.progress = @ + 1,
                         !.preds = Append(@, Unnamed(0, tr.counter)),
                         !.oof = Append(@, CrossValPredictSplit(n, tr.fold)),
                         !.counter = @ + 1,
                         !.pc = IF i = Len(level) THEN "baseasm" ELSE "base"])
    /\ UNCHANGED <<ver, experiment__, hist, plog, script, held, kfold, frames>>

\* base_array_df.columns = base_level_fixed
CSNamed(preds, names) ==
    [i \in 1..Len(preds) |-> Relabel(preds[i], names[i][1], "BaseLevel", -1, names[i][2])]

\* level_table_0
CSBaseTable(data_X, base_array_df, restack) ==
    IF restack THEN data_X \o base_array_df ELSE base_array_df

\* models_ extended with the estimators of a level one by one, not as a list
CSLevelDoneFlat(models_, inner) == models_ \o [i \in 1..Len(inner) |-> EstE(inner[i])]

\* models_.append(base_models_), models_.append(inter_inner)
CSLevelDone(models_, inner) == Append(models_, LvlE(inner))

\* name the base columns, restack, models_.append(base_models_)
CSBaseAssemble ==
    /\ tr.fn = "create_stacknet" /\ tr.pc = "baseasm"
    /\ IF Len(tr.names) # Len(tr.preds)
       THEN \* Length mismatch: ValueError
            Raise("create_stacknet", tr.via, "ValueError")
       ELSE Continue([tr EXCEPT
                !.preds = CSBaseTable(tr.data_X, CSNamed(tr.preds, tr.names), tr.restack),
                !.models_ = CSLevelDone(@, tr.inner),
                !.inner = <<>>, !.inter = <<>>, !.counter = 0, !.inter_counter = 0,
                !.pc = IF Len(tr.levels) = 1 THEN "metafit" ELSE "inter"])
    /\ ops' = {}
    /\ UNCHANGED <<ver, est, experiment__, hist, plog, script, held, kfold, frames>>

\* one turn of "for model in level" of an intermediate level
CSInter ==
    /\ tr.fn = "create_stacknet" /\ tr.pc = "inter"
    /\ LET level == tr.levels[tr.inter_counter + 2]
           i == tr.counter + 1
           n == NRows(tr.data)
       IN /\ est' = CrossValPredict(Fit(est, level[i], tr.preds, AllRows(n), tr.data),
                                  level[i], tr.preds,
                                  CrossValPredictSplit(n, tr.fold), tr.data)
          /\ IF ~CVOk(n, tr.fold)
             THEN /\ ops' = {"fit", "split"}
                  /\ Raise("create_stacknet", tr.via, "ValueError")
             ELSE IF ~HasPredict(est[level[i]].typ)
             THEN /\ ops' = {"fit", "split", "clone_fit"}
                  /\ Raise("create_stacknet", tr.via, "AttributeError")
             ELSE /\ ops' = {"fit", "split", "clone_fit", "predict"}
                  /\ Continue([tr EXCEPT
                         !.inner = Append(@, level[i]),
                         !.inter = Append(@, CSInterCol(Unnamed(tr.inter_counter + 1, tr.counter),
                                                        est[level[i]].typ,
                                                        tr.inter_counter, tr.counter)),
                         !.oof = Append(@, CrossValPredictSplit(n, tr.fold)),
                         !.counter = @ + 1,
                         !.pc = IF i = Len(level) THEN "levelend" ELSE "inter"])
    /\ UNCHANGED <<ver, experiment__, hist, plog, script, held, kfold, frames>>

\* the last k columns: base_array_df.iloc[:, i:] with i = shape[1] - k
LastCols(t, k) == SubSeq(t, Len(t) - k + 1, Len(t))

\* level_table_i with the level's new columns put before the table before it
CSLevelTableNewFirst(base_array_df, inter_array_df, restack, k) ==
    IF restack THEN inter_array_df \o base_array_df
    ELSE LastCols(inter_array_df \o base_array_df, k)

\* level_table_i from the table before it and the level's new columns
CSLevelTable(base_array_df, inter_array_df, restack, k) ==
    IF restack THEN base_array_df \o inter_array_df
    ELSE LastCols(base_array_df \o inter_array_df, k)

\* after the inner loop: concat, models_.append(inter_inner), drop when not restacking
CSLevelEnd ==
    /\ tr.fn = "create_stacknet" /\ tr.pc = "levelend"
    /\ Continue([tr EXCEPT
           !.preds = CSLevelTable(tr.preds, tr.inter, tr.restack,
                                  Len(tr.levels[tr.inter_counter + 2])),
           !.models_ = CSLevelDone(@, tr.inner),
           !.inner = <<>>, !.inter = <<>>, !.counter = 0,
           !.inter_counter = @ + 1,
           !.pc = IF tr.inter_counter + 2 = Len(tr.levels) THEN "metafit" ELSE "inter"])
    /\ ops' = {}
    /\ UNCHANGED <<ver, est, experiment__, hist, plog, script, held, kfold, frames>>

\* data_X = base_array_df.copy(); meta_model_ = model.fit(data_X, data_y); KFold
CSMetaFit ==
    /\ tr.fn = "create_stacknet" /\ tr.pc = "metafit"
    /\ est' = Fit(est, tr.meta, tr.preds, AllRows(NRows(tr.data)), tr.data)
    /\ ops' = {"fit"}
    /\ Continue([tr EXCEPT !.data_X = tr.preds,
                           !.kf = KFoldSplit(NRows(tr.data), tr.fold, Seed(tr.data[1])),
                           !.fold_num = 1, !.pc = "cv"])
    /\ UNCHANGED <<ver, experiment__, hist, plog, script, held, kfold, frames>>

\* the estimator the cross-validation loop fits
CSCvModel(f) == f.meta

\* one turn of "for train_i, test_i in kf.split(data_X, data_y)"; after the
\* last turn the summary rows and the last progress.value += 1
CSCv ==
    /\ tr.fn = "create_stacknet" /\ tr.pc = "cv"
    /\ est' = Fit(est, CSCvModel(tr), tr.data_X, tr.kf[tr.fold_num].train, tr.data)
    /\ IF ~HasPredict(est[CSCvModel(tr)].typ)
       THEN \* model.predict(Xtest): AttributeError
            /\ ops' = {"fit"}
            /\ Raise("create_stacknet", tr.via, "AttributeError")
       ELSE /\ ops' = {"fit", "predict"}
            /\ Continue([tr EXCEPT
                   !.progress = IF tr.fold_num = tr.fold THEN @ + 2 ELSE @ + 1,
                   !.fold_num = @ + 1,
                   !.scores = Append(@, FoldScore(tr.kf[tr.fold_num].train,
                                                  tr.kf[tr.fold_num].test)),
                   !.pc = IF tr.fold_num = tr.fold THEN "finish" ELSE "cv"])
    /\ UNCHANGED <<ver, experiment__, hist, plog, script, held, kfold, frames>>

\* models_ with the restack flag appended before the meta estimator
CSContainerFlagBeforeMeta(models_, meta, restack) == models_ \o <<FlagE(restack), EstE(meta)>>

\* models_.append(meta_model_); models_.append(restack)
CSContainer(models_, meta, restack) == models_ \o <<EstE(meta), FlagE(restack)>>

\* models_.append(meta_model_), models_.append(restack), the log, return
CSFinish ==
    /\ tr.fn = "create_stacknet" /\ tr.pc = "finish"
    /\ LET cont == CSContainer(tr.models_, tr.meta, tr.restack)
       IN /\ experiment__' = Logged(experiment__, "Stacking Regressor (Multi Layer)",
                                    "Stacking Regressor (Multi Layer) Score Grid",
                                    cont, ScoreGrid(tr.scores))
          /\ hist' = Append(hist, Returned("create_stacknet", tr.via, cont, est))
          /\ Return("create_stacknet", tr.via, cont)
    /\ ops' = {}
    /\ UNCHANGED <<ver, est, plog, script, held, kfold, frames>>

(* ----------------------------- finalize_model -------------------------- *)

\* the estimator objects of a container, in list order
ContIds(c) == Flatten([i \in 1..Len(c) |->
                  IF c[i].k = "est" THEN <<c[i].id>>
                  ELSE IF c[i].k = "level" THEN c[i].ids ELSE <<>>])

First(s, x) == CHOOSE j \in 1..Len(s) : s[j] = x /\ \A k \in 1..(j - 1) : s[k] # x

\* deepcopy(estimator): every object of the container is copied to a new one
CopyId(h, c, x) == Len(h) + First(ContIds(c), x)

CopyHeap(h, c) == h \o [j \in 1..Len(ContIds(c)) |-> h[ContIds(c)[j]]]

CopyCont(h, c) ==
    [i \in 1..Len(c) |->
        IF c[i].k = "est" THEN EstE(CopyId(h, c, c[i].id))
        ELSE IF c[i].k = "level"
        THEN LvlE([j \in 1..Len(c[i].ids) |-> CopyId(h, c, c[i].ids[j])])
        ELSE c[i]]

\* type(estimator[0]) is list
IsMulti(c) == c[1].k = "level"

\* stacker_final.pop() twice: the restack flag, then the meta model
PopRestack(c) == c[Len(c)].flag
PopMeta(c) == c[Len(c) - 1].id
\* what is left: the base estimators, or the levels
RestEsts(c) == [i \in 1..(Len(c) - 2) |-> c[i].id]
RestLevels(c) == [i \in 1..(Len(c) - 2) |-> c[i].ids]

\* the fold finalize_model passes on: none, so the default
FinalizeFold == DefaultFold

FinalizeArgsOk(h, c) ==
    IF IsMulti(c) THEN CSArgsOk(h, RestLevels(c), PopMeta(c))
    ELSE SMArgsOk(h, RestEsts(c), PopMeta(c))

\* finalize_model(estimator) on a stack container, up to the first loop of
\* the training function it calls
FinalizeEnter(estimator, via) ==
    LET h == CopyHeap(est, estimator)
        c == CopyCont(est, estimator)
    IN IF IsMulti(estimator)
       THEN CSEnter(h, RestLevels(c), PopMeta(c), FinalizeFold, PopRestack(c), TRUE, via)
       ELSE SMEnter(h, RestEsts(c), PopMeta(c), FinalizeFold, PopRestack(c), TRUE, via)

\* finalize_model(estimator) called by the user: on a container returned
\* earlier, or on one estimator the caller holds (deepcopy, fit(X, y), the
\* log entry, return the copy)
FinalizeModelCall ==
    /\ Idle /\ NextOp("finalize")
    /\ \/ \E r \in 1..Len(hist) :
            LET estimator == hist[r].cont
            IN /\ hist[r].via = "user"
               /\ FinalizeEnter(estimator, "finalize")
               /\ IF FinalizeArgsOk(est, estimator)
                  THEN /\ fm' = [pc |-> "wait", via |-> "finalize",
                                 estimator |-> estimator, result |-> <<>>,
                                 pre |-> Fits(est)]
                       /\ ret' = NoRet
                  ELSE /\ fm' = FmIdle
                       /\ ret' = Failed("finalize_model", NoCall, "SystemExit")
               /\ UNCHANGED experiment__
       \/ \E id \in held :
            /\ est' = Append(est, [typ |-> est[id].typ,
                                   fit |-> FitOn(RawCols, AllRows(NAll), <<ver, "full">>)])
            /\ experiment__' = Append(experiment__,
                                      Entry("Final", <<EstE(Len(est) + 1)>>, <<>>))
            /\ ret' = [op |-> "finalize_model", status |-> "ok",
                       val |-> <<EstE(Len(est) + 1)>>, err |-> "none", call |-> NoCall]
            /\ ops' = {"fit"}
            /\ UNCHANGED <<tr, fm, frames>>
    /\ script' = Tail(script)
    /\ UNCHANGED <<ver, pm, hist, plog, held, kfold>>

\* after the training call returned: the log entry, return model_final
FMReturn ==
    /\ fm.pc = "ret"
    /\ experiment__' = Append(experiment__, Entry("Final", fm.result, <<>>))
    /\ fm' = FmIdle
    /\ IF fm.via = "predict"
       THEN /\ pm' = [pm EXCEPT !.model = fm.result, !.pc = "base"]
            /\ UNCHANGED ret
       ELSE /\ ret' = [op |-> "finalize_model", status |-> "ok", val |-> fm.result,
                        err |-> "none", call |-> NoCall]
            /\ UNCHANGED pm
    /\ ops' = {}
    /\ UNCHANGED <<ver, est, tr, hist, plog, script, held, kfold, frames>>

(* ----------------------------- predict_model --------------------------- *)

\* the tables of seq ts that estimator e is asked to predict on, in order,
\* up to the first it accepts
RECURSIVE Attempts(_, _)
Attempts(e, ts) ==
    IF ts = <<>> THEN <<>>
    ELSE IF Accepts(e, Head(ts)) THEN <<Head(ts)>>
    ELSE <<Head(ts)>> \o Attempts(e, Tail(ts))

Succeeds(e, ts) == \E i \in 1..Len(ts) : Accepts(e, ts[i])

\* the table the prediction comes from
Accepted(e, ts) == Attempts(e, ts)[Len(Attempts(e, ts))]

Call(id, at, cols) == [id |-> id, at |-> at, cols |-> cols]

\* a prediction vector, by what determines it: the fitted states of the
\* estimators that made it and the rows they were given
Prediction(heap, model, data) ==
    [fits |-> [k \in 1..Len(ContIds(model)) |-> heap[ContIds(model)[k]].fit], data |-> data]

\* the table a caller passes as data: NHold rows under labels of its own
NewData == Frame(0, [i \in 1..NHold |-> NHold - i])

\* the input rows with the labels they came with
PredictInputKept(f, given) == IF given THEN NewData ELSE f.X_test

\* Xtest and X_test_: X_test.copy(), or data (transformed and copied), then
\* reset_index(drop = True, inplace = True)
PredictInput(f, given) == ResetIndex(IF given THEN NewData ELSE f.X_test)

\* where label l stands in an index, 0 when it does not
Position(index, l) ==
    IF \E i \in 1..Len(index) : index[i] = l
    THEN CHOOSE i \in 1..Len(index) : index[i] = l
    ELSE 0

\* pd.concat([X_test_, label], axis = 1) of the input table and of
\* label = pd.DataFrame(pred_) over m predictions: rows are matched by
\* index label, a label only one side has gives a row of its own.  Every
\* row of the result by the input row and the prediction it holds
Labelled(input, m, given) ==
    LET label == [i \in 1..m |-> i - 1]
        New(l) == \A i \in 1..Len(input.index) : input.index[i] # l
        index == input.index \o SelectSeq(label, New)
    IN [rows |-> [i \in 1..Len(index) |->
                     [row |-> Position(input.index, index[i]),
                      pred |-> Position(label, index[i])]],
        cols |-> IF given THEN <<"data", "Label">> ELSE <<"Xtest", "ytest", "Label">>]

\* predict_model(estimator, data): with data the estimator is first
\* handed to finalize_model inside try/except
PredictModelCall ==
    /\ Idle /\ NextOp("predict")
    /\ \E r \in 1..Len(hist), given \in BOOLEAN :
         LET estimator == hist[r].cont
             frame == [PmIdle EXCEPT !.estimator = estimator, !.given = given, !.ref = r,
                                     !.Xtest = RawCols,
                                     !.input = PredictInput(frames, given)]
         IN /\ hist[r].via # "predict"
            /\ IF ~given
               THEN /\ pm' = [frame EXCEPT !.pc = "base", !.model = estimator,
                                           !.data = <<ver, "test">>]
                    /\ UNCHANGED <<est, tr, fm, frames>>
                    /\ ops' = {}
               ELSE /\ FinalizeEnter(estimator, "predict")
                    /\ IF FinalizeArgsOk(est, estimator)
                       THEN /\ pm' = [frame EXCEPT !.pc = "wait", !.data = <<0, "new">>]
                            /\ fm' = [pc |-> "wait", via |-> "predict",
                                      estimator |-> estimator, result |-> <<>>,
                                      pre |-> Fits(est)]
                       ELSE /\ pm' = [frame EXCEPT !.pc = "base", !.model = estimator,
                                                   !.data = <<0, "new">>]
                            /\ fm' = FmIdle
    /\ script' = Tail(script)
    /\ UNCHANGED <<ver, experiment__, ret, hist, plog, held, kfold>>

\* model_names with the counter started at 1
PMSingleNamesFromOne(heap, ids) == [i \in 1..Len(ids) |-> <<CatFix(StrName(heap[ids[i]].typ)), i>>]

\* model_names of the single-layer branch: <type name>_<counter>
PMSingleNames(heap, ids) == [i \in 1..Len(ids) |-> <<CatFix(StrName(heap[ids[i]].typ)), i - 1>>]

\* base_level_fixed of the multi-layer branch: <type name>_BaseLevel_<counter>
PMBaseNames(heap, ids) == [i \in 1..Len(ids) |-> <<CatFix(StrName(heap[ids[i]].typ)), i - 1>>]

\* an exception of an estimator's predict, or of the function's own code,
\* leaves predict_model
PMFail(err) ==
    /\ pm' = PmIdle
    /\ ret' = Failed("predict_model", NoCall, err)
    /\ UNCHANGED plog

\* predict with every base estimator on Xtest and name the columns
PMBase ==
    /\ pm.pc = "base"
    /\ LET multi == IsMulti(pm.estimator)
           ids == IF multi THEN pm.model[1].ids ELSE RestEsts(pm.model)
           raw == [i \in 1..Len(ids) |-> Unnamed(0, i - 1)]
           df == IF multi THEN CSNamed(raw, PMBaseNames(est, ids))
                 ELSE SMNamed(raw, PMSingleNames(est, ids))
       IN IF \E i \in 1..Len(ids) : ~Accepts(est[ids[i]], pm.Xtest)
          THEN PMFail("ValueError")
          ELSE /\ pm' = [pm EXCEPT !.base = df, !.combined = pm.Xtest \o df, !.lvl = 0,
                            !.order = ids,
                            !.pc = IF multi /\ Len(pm.model) > 3 THEN "level" ELSE "meta"]
               /\ UNCHANGED <<ret, plog>>
    /\ ops' = {"predict"}
    /\ UNCHANGED <<ver, est, experiment__, tr, fm, hist, script, held, kfold, frames>>

\* the tables an intermediate estimator is tried on, in order
PMLevelTables(f) ==
    IF f.lvl = 0 THEN <<f.combined, f.base, f.combined>> ELSE <<f.last, f.combined>>

\* one turn of "for level in stacker"
PMLevel ==
    /\ pm.pc = "level"
    /\ LET ids == pm.model[pm.lvl + 2].ids
           ts == PMLevelTables(pm)
           inter_pred_df == [j \in 1..Len(ids) |->
                                CSInterCol(Unnamed(pm.lvl + 1, j - 1), est[ids[j]].typ,
                                           pm.lvl, j - 1)]
       IN IF \E j \in 1..Len(ids) : ~Succeeds(est[ids[j]], ts)
          THEN PMFail("ValueError")
          ELSE /\ pm' = [pm EXCEPT
                     !.last = inter_pred_df,
                     !.combined = @ \o inter_pred_df,
                     !.lvl = @ + 1,
                     !.order = @ \o ids,
                     !.tried = @ \o Flatten([j \in 1..Len(ids) |->
                                   [a \in 1..Len(Attempts(est[ids[j]], ts)) |->
                                       Call(ids[j], pm.lvl + 1, Attempts(est[ids[j]], ts)[a])]]),
                     !.used = @ \o [j \in 1..Len(ids) |->
                                   Call(ids[j], pm.lvl + 1, Accepted(est[ids[j]], ts))],
                     !.pc = IF pm.lvl + 4 = Len(pm.model) THEN "meta" ELSE "level"]
               /\ UNCHANGED <<ret, plog>>
    /\ ops' = {"predict"}
    /\ UNCHANGED <<ver, est, experiment__, tr, fm, hist, script, held, kfold, frames>>

\* the tables the meta estimator is tried on, in order.  Single layer: df,
\* then df_restack.  Multi layer: combined_df, then inter_pred_df, a name
\* that is bound only once a level has been traversed
PMMetaTables(f) ==
    IF IsMulti(f.estimator)
    THEN <<f.combined>> \o (IF f.lvl > 0 THEN <<f.last>> ELSE <<>>)
    ELSE <<f.base, f.combined>>

\* what leaves predict_model when the meta estimator rejects every table:
\* the ValueError of its predict, or in the multi-layer branch with no
\* level traversed the NameError of the unbound inter_pred_df
PMMetaError(f) ==
    IF IsMulti(f.estimator) /\ f.lvl = 0 THEN "NameError" ELSE "ValueError"

\* the final meta prediction and the Label column
PMMeta ==
    /\ pm.pc = "meta"
    /\ LET meta == PopMeta(pm.model)
           ts == PMMetaTables(pm)
           tries == [a \in 1..Len(Attempts(est[meta], ts)) |->
                        Call(meta, -1, Attempts(est[meta], ts)[a])]
       IN IF ~Succeeds(est[meta], ts)
          THEN PMFail(PMMetaError(pm))
          ELSE /\ pm' = PmIdle
               /\ ret' = [op |-> "predict_model", status |-> "ok", val |-> <<>>,
                           err |-> "none", call |-> NoCall]
               /\ plog' = Append(plog,
                      [ref |-> pm.ref, given |-> pm.given, data |-> pm.data,
                       model |-> pm.model,
                       tried |-> pm.tried \o tries,
                       used |-> Append(pm.used, Call(meta, -1, Accepted(est[meta], ts))),
                       pred |-> Prediction(est, pm.model, pm.data),
                       order |-> Append(pm.order, meta),
                       out |-> Labelled(pm.input, Len(pm.input.index), pm.given),
                       X |-> ver])
    /\ ops' = {"predict"}
    /\ UNCHANGED <<ver, est, experiment__, tr, fm, hist, script, held, kfold, frames>>

(* -------------------------------- setup -------------------------------- *)

\* the log setup() leaves
SetupLog == << Entry("Regression Info", <<>>, <<>>), Entry("X_training Set", <<>>, <<>>),
               Entry("y_training Set", <<>>, <<>>), Entry("X_test Set", <<>>, <<>>),
               Entry("y_test Set", <<>>, <<>>), Entry("Transformation Pipeline", <<>>, <<>>) >>

\* setup() on another data set: new X, y, X_train, y_train, X_test and an
\* empty log; the objects the caller holds stay as they are
Setup ==
    /\ Idle /\ NextOp("setup")
    /\ ver' = ver + 1
    /\ experiment__' = SetupLog
    /\ frames' = SetupFrames(ver + 1)
    /\ script' = Tail(script)
    /\ ops' = {}
    /\ UNCHANGED <<est, tr, fm, pm, ret, hist, plog, held, kfold>>

(* ------------------------------ the system ----------------------------- *)

\* the objects the caller holds: the estimators create_model left, each fit
\* on X_train, and the caller's other objects, not fit
PoolHeap == [i \in Pool |-> [typ |-> PoolTypes[i],
                             fit |-> IF i \in Trained
                                     THEN FitOn(RawCols, AllRows(NTrain), <<1, "train">>)
                                     ELSE Unfit]]

\* a session: the user-level operations the caller performs, in order
\* ("train" is a call of stack_models or of create_stacknet), and the pool
\* estimators the caller passes
Session(scripts, pool) ==
    /\ ver = 1
    /\ est = PoolHeap
    /\ experiment__ = SetupLog
    /\ tr = TrIdle /\ fm = FmIdle /\ pm = PmIdle
    /\ ret = NoRet
    /\ hist = <<>>
    /\ plog = <<>>
    /\ script \in scripts
    /\ held = pool
    /\ ops = {}
    /\ kfold = NoSplit
    /\ frames = SetupFrames(1)

Training ==
    \/ StackModelsCall
    \/ SMBase
    \/ SMAssemble
    \/ SMCv
    \/ SMFinish
    \/ CreateStacknetCall
    \/ CSBase
    \/ CSBaseAssemble
    \/ CSInter
    \/ CSLevelEnd
    \/ CSMetaFit
    \/ CSCv
    \/ CSFinish

Inference ==
    \/ FMReturn
    \/ PredictModelCall
    \/ PMBase
    \/ PMLevel
    \/ PMMeta

\* one stacking call, then one predict_model call, setup() called again in
\* between or not
Init == Session({<<"train", "predict">>, <<"train", "setup", "predict">>}, Trained)

Next == Training \/ Inference \/ Setup

Spec == Init /\ [][Next]_vars

\* two stacking calls in a row, on two pool estimators
InitSeq == Session({<<"train", "train">>}, {1, 2})

SpecSeq == InitSeq /\ [][Training]_vars

\* one stacking call and two predict_model calls, on two pool estimators
InitTwice == Session({<<"train", "predict", "predict">>,
                      <<"train", "predict", "setup", "predict">>}, {1, 2})

SpecTwice == InitTwice /\ [][Next]_vars

\* one stacking call, then finalize_model and predict_model, or setup() and
\* finalize_model
InitFinal == Session({<<"train", "finalize", "predict">>,
                      <<"train", "setup", "finalize">>}, {1, 2})

NextFinal == Next \/ FinalizeModelCall

SpecFinal == InitFinal /\ [][NextFinal]_vars

\* the next fold of a derivation
Fold(split) ==
    IF split.via = "KFold" THEN KFoldSplit(split.n, split.k, 0)[split.j + 1]
    ELSE CrossValPredictSplit(split.n, split.k)[split.j + 1]

\* one turn of "for train_i, test_i in kf.split(...)", and of the loop over
\* cv.split inside cross_val_predict
KFoldNext ==
    /\ kfold.j < kfold.k
    /\ kfold' = [kfold EXCEPT !.j = @ + 1, !.tests = Append(@, Fold(kfold).test)]
    /\ UNCHANGED <<ver, est, experiment__, tr, fm, pm, ret, hist, plog, script, held, ops, frames>>

\* fold derivations over every N up to MaxRows and every K with 2 <= K <= N
InitFold ==
    /\ ver = 1
    /\ est = PoolHeap
    /\ experiment__ = SetupLog
    /\ tr = TrIdle /\ fm = FmIdle /\ pm = PmIdle
    /\ ret = NoRet
    /\ hist = <<>>
    /\ plog = <<>>
    /\ script = <<>>
    /\ held = {}
    /\ ops = {}
    /\ frames = SetupFrames(1)
    /\ kfold \in {Split(via, n, k) : via \in {"KFold", "cross_val_predict"},
                                     n \in 2..MaxRows, k \in 2..MaxRows}
    /\ kfold.k <= kfold.n

SpecFold == InitFold /\ [][KFoldNext]_vars

\* one stacking call on two estimators, the transformer and the caller's
\* own regressor
InitArgs == Session({<<"train">>}, {1, 3, 4, 5})

SpecArgs == InitArgs /\ [][Training]_vars

\* one stacking call on up to four estimators, three of them CatBoost
InitWide == Session({<<"train">>}, {1, 2, 6, 7})

SpecWide == InitWide /\ [][Training]_vars

(* ------------------------------ properties ----------------------------- *)

Plog == 1..Len(plog)
Hist == 1..Len(hist)

\* the call of the meta estimator that produced the prediction
MetaUse(p) == p.used[Len(p.used)]

\* the table an estimator of container h was fit on when h was returned
FitTable(h, id) == h.snap[id].cols

\* C1: a prediction of predict_model on a single-layer container comes from
\* a meta estimator given a table whose column labels are, in order, those
\* of the table that meta estimator was fit on inside stack_models: both for
\* the container passed and for the container the prediction is made with
C1_SingleLayerRoundTrip ==
    \A i \in Plog : \A j \in Hist :
        (hist[j].fn = "stack_models" /\ (j = plog[i].ref \/ hist[j].cont = plog[i].model))
        => Labels(MetaUse(plog[i]).cols) = Labels(FitTable(hist[j], PopMeta(hist[j].cont)))

\* a restacked single-layer container over two base estimators has predicted
C1_Witness ==
    \E i \in Plog : /\ hist[plog[i].ref].fn = "stack_models"
                    /\ PopRestack(plog[i].model)
                    /\ Len(RestEsts(plog[i].model)) = 2

\* C2: on a container of create_stacknet, every intermediate estimator and
\* the meta estimator predict on a table whose column labels are, in order,
\* those of the table that estimator was fit on inside create_stacknet
C2_MultiLayerRoundTrip ==
    \A i \in Plog : \A j \in Hist :
        (hist[j].fn = "create_stacknet" /\ hist[j].cont = plog[i].model)
        => \A k \in 1..Len(plog[i].used) :
               Labels(plog[i].used[k].cols) = Labels(FitTable(hist[j], plog[i].used[k].id))

\* C3: the meta estimator of a returned container is fit on every row of
\* the assembled table
C3_MetaFitOnFullTable ==
    \A j \in Hist :
        LET f == hist[j].snap[PopMeta(hist[j].cont)]
        IN f.rows = AllRows(NRows(f.data))

\* C4: every estimator of a container returned earlier is still fit on the
\* table it was fit on when the container was returned
C4_ReturnedEstimatorsKeepFit ==
    \A j \in Hist : \A id \in IdsOf(hist[j].cont) : est[id].fit = hist[j].snap[id]

\* C5: from call to return of predict_model no estimator is fit and no fold
\* is derived
C5_PredictNeverFits ==
    pm.pc # "idle" => ops \cap {"fit", "split", "clone_fit"} = {}

\* C6: two predictions of predict_model made with one container and one
\* data table passed are the same vector, whatever X, y, X_train, y_train
\* and the log were at each call
C6_SameInputsSamePrediction ==
    \A i, j \in Plog :
        (plog[i].given /\ plog[j].given /\ plog[i].ref = plog[j].ref
            /\ plog[i].data = plog[j].data)
        => plog[i].pred = plog[j].pred

\* the columns of table t that hold predictions of the estimators of level l
Engineered(t, l) == \A c \in 1..Len(t) : t[c].byl = l

\* C7: on a single-layer container the first table the meta estimator is
\* asked to predict on is chosen by the restack flag: raw features followed
\* by the base prediction columns when it is true, and with the flag false
\* the base prediction columns are the only table tried
C7_MetaInputByRestackFlag ==
    \A i \in Plog :
        ~IsMulti(plog[i].model) =>
            LET n == Len(RestEsts(plog[i].model))
                first == plog[i].tried[1].cols
            IN IF PopRestack(plog[i].model)
               THEN /\ Len(first) = NumFeatures + n
                    /\ SubSeq(first, 1, NumFeatures) = RawCols
                    /\ Engineered(LastCols(first, n), 0)
               ELSE /\ Len(plog[i].tried) = 1
                    /\ Len(first) = n
                    /\ Engineered(first, 0)

\* the estimators (level place, position) of levels lo..hi of a net, in order
Producers(levels, lo, hi) ==
    Flatten([l \in 1..(hi - lo + 1) |->
                [p \in 1..Len(levels[lo + l - 1]) |-> <<lo + l - 2, p - 1>>]])

\* who produced each column of table t
ProducedBy(t) == [c \in 1..Len(t) |-> <<t[c].byl, t[c].byp>>]

\* the number of estimators of each level
Shape(levels) == [l \in 1..Len(levels) |-> Len(levels[l])]

\* create_stacknet has finished `done` intermediate levels and is between levels
CSAfterLevel(done) ==
    /\ tr.fn = "create_stacknet"
    /\ tr.inter_counter = done
    /\ tr.pc \in {"metafit", "cv", "finish"} \/ (tr.pc = "inter" /\ tr.counter = 0)

\* C8, the level tables: without restacking the table after intermediate
\* level i holds the columns of level i only, in estimator-list order
C8_LevelTableIsLastLevel ==
    \A done \in 1..MaxLevels :
        (CSAfterLevel(done) /\ ~tr.restack)
        => ProducedBy(tr.preds) = Producers(tr.levels, done + 1, done + 1)

\* the rows of the table a stacking call trains on
CallRows(call) == IF call.finalize THEN NAll ELSE NTrain

\* C8, the scenario: create_stacknet over [[A, B], [C]] without restacking
\* and with a fold count the rows allow returns a container whose meta estimator is fit on one column
C8_TwoOneScenario ==
    (ret.op = "create_stacknet" /\ ~ret.call.restack /\ Shape(ret.call.levels) = <<2, 1>>
        /\ CVOk(CallRows(ret.call), ret.call.fold))
    => /\ ret.status = "ok"
       /\ Len(est[PopMeta(ret.val)].fit.cols) = 1

\* C8: in create_stacknet without restacking every level table holds the
\* columns of its level only, and the net [[A, B], [C]] is trained with a
\* meta table of one column
C8_NoRestackKeepsLastLevel == C8_LevelTableIsLastLevel /\ C8_TwoOneScenario

\* C9: with restack the assembled table is the table before it followed by
\* the new columns in estimator-list order: in stack_models the F raw
\* columns then the n base columns, in create_stacknet the raw columns then
\* the columns of every level so far, level by level
C9_RestackAppendsInOrder ==
    /\ (tr.fn = "stack_models" /\ tr.restack /\ tr.pc \in {"cv", "finish"})
       => /\ Len(tr.data_X) = NumFeatures + Len(tr.levels[1])
          /\ SubSeq(tr.data_X, 1, NumFeatures) = RawCols
          /\ ProducedBy(LastCols(tr.data_X, Len(tr.levels[1]))) = Producers(tr.levels, 1, 1)
    /\ \A done \in 0..MaxLevels :
          (CSAfterLevel(done) /\ tr.restack)
          => /\ SubSeq(tr.preds, 1, NumFeatures) = RawCols
             /\ ProducedBy(SubSeq(tr.preds, NumFeatures + 1, Len(tr.preds)))
                    = Producers(tr.levels, 1, done + 1)

\* a restacked net with a base level and an intermediate level of two
\* estimators is cross-validating its meta estimator
C9_Witness ==
    /\ tr.fn = "create_stacknet" /\ tr.restack /\ tr.pc = "cv"
    /\ Len(tr.levels) = 2 /\ Len(tr.levels[2]) = 2

\* the estimator at place (l, p) of a net of levels
At(levels, l, p) == levels[l + 1][p + 1]

\* the levels of a container: those of a net, or the one list of a stack
LevelsOf(c) == IF IsMulti(c) THEN RestLevels(c) ELSE <<RestEsts(c)>>

\* column c has all four parts of the name, with the type name and the
\* position of the estimator that produced it
WellNamed(c, levels) ==
    /\ c.typ = est[At(levels, c.byl, c.byp)].typ
    /\ c.tag # ""
    /\ c.lvl # -1
    /\ c.pos = c.byp

\* C10: every prediction column of the table the meta estimator is fit on
\* in stack_models and create_stacknet, and of the table predict_model has
\* assembled when it reaches the meta estimator, is named
\* <type>_<level tag>_<level index>_<position> after its estimator
C10_EngineeredColumnNames ==
    /\ (tr.pc = "cv")
       => \A c \in 1..Len(tr.data_X) :
              tr.data_X[c].byl >= 0 => WellNamed(tr.data_X[c], tr.levels)
    /\ (pm.pc = "meta")
       => \A c \in 1..Len(pm.combined) :
              pm.combined[c].byl >= 0 => WellNamed(pm.combined[c], LevelsOf(pm.model))

\* the last stacking call the caller made returned a container
ReturnedOk(fn) == ret.op = fn /\ ret.status = "ok"

\* C11: stack_models given n base estimators returns a list of n + 2
\* elements: the n estimators in the caller's order, then the meta
\* estimator, then the restack flag passed
C11_SingleLayerContainer ==
    ReturnedOk("stack_models") =>
        LET list == ret.call.levels[1]
            n == Len(list)
        IN /\ Len(ret.val) = n + 2
           /\ \A i \in 1..n : ret.val[i] = EstE(list[i])
           /\ ret.val[n + 1] = EstE(ret.call.meta)
           /\ ret.val[n + 2] = FlagE(ret.call.restack)

\* stack_models returned the container of two base estimators, restacked
C11_Witness ==
    ReturnedOk("stack_models") /\ Len(ret.call.levels[1]) = 2 /\ ret.call.restack

IsPrefix(s, t) == Len(s) <= Len(t) /\ SubSeq(t, 1, Len(s)) = s

\* the container create_stacknet returns for L levels
CSShape ==
    ReturnedOk("create_stacknet") =>
        LET L == Len(ret.call.levels)
        IN /\ Len(ret.val) = L + 2
           /\ \A j \in 1..L : ret.val[j] = LvlE(ret.call.levels[j])
           /\ ret.val[L + 1] = EstE(ret.call.meta)
           /\ ret.val[L + 2] = FlagE(ret.call.restack)

\* a step inside create_stacknet only extends models_
CSExtends ==
    (tr.fn = "create_stacknet" /\ tr'.fn = "create_stacknet")
    => IsPrefix(tr.models_, tr'.models_)

\* C12: create_stacknet given L levels returns a list of L + 2 elements,
\* element j the list of the estimators of level j in input order, then the
\* meta estimator, then the restack flag; and during the call the container
\* is only ever extended
C12_MultiLayerContainer == [](CSShape) /\ [][CSExtends]_vars

\* create_stacknet returned the container of a net of two levels
C12_Witness ==
    ReturnedOk("create_stacknet") /\ Len(ret.call.levels) = 2 /\ Len(ret.call.levels[1]) = 2

\* C13 as stated: the last element of a returned container is the meta model
C13_LastIsMeta ==
    \A j \in Hist : hist[j].cont[Len(hist[j].cont)].k = "est"

\* C13 amended: the last element of a returned container is the restack
\* flag and the element before it is the meta model, one estimator fit on
\* a table that holds prediction columns
C13_MetaBeforeFlag ==
    \A j \in Hist :
        LET c == hist[j].cont
        IN /\ c[Len(c)].k = "flag"
           /\ c[Len(c) - 1].k = "est"
           /\ \E i \in 1..Len(hist[j].snap[c[Len(c) - 1].id].cols) :
                  hist[j].snap[c[Len(c) - 1].id].cols[i].byl >= 0

\* both stacking functions have returned a container
C13_Witness ==
    \E j \in Hist : hist[j].fn = "create_stacknet" /\ Len(hist[j].cont) = 4

\* the last call the caller made was a stacking call
Stacked == ret.op \in {"stack_models", "create_stacknet"}

\* C14: a stacking call whose fold is below 2 or above the number of
\* training rows fails at once: no step of the call is taken with such a
\* fold, and when the call has failed no estimator was fit by the failing
\* step and every object has the fitted state it had before the call
C14_InvalidFoldFailsBeforeFit ==
    /\ (tr.pc # "idle" /\ tr.via = "user") => CVOk(NRows(tr.data), tr.fold)
    /\ (Stacked /\ ~CVOk(CallRows(ret.call), ret.call.fold))
       => /\ ret.status = "error"
          /\ ops \cap {"fit", "clone_fit"} = {}
          /\ \A i \in 1..Len(ret.call.pre) : est[i].fit = ret.call.pre[i]

\* the objects a stacking call was given: the estimator lists and the meta model
Given(call) == Range(Flatten(call.levels)) \cup ({call.meta} \ {0})

\* the object exposes fit and predict
Capable(t) == HasFit(t) /\ HasPredict(t)

\* C15: a stacking call given an object without fit or without predict, at
\* any level or as meta model, fails with the refusal of the argument check
C15_IncapableRefused ==
    (Stacked /\ \E id \in Given(ret.call) : ~Capable(est[id].typ))
    => (ret.status = "error" /\ ret.err = "SystemExit")

\* C16: the argument check of a stacking call refuses only calls given an
\* object without fit or without predict
C16_CapableAccepted ==
    (Stacked /\ ret.err = "SystemExit")
    => \E id \in Given(ret.call) : ~Capable(est[id].typ)

\* C17: when predict_model fails over the tables it rebuilt, it fails with
\* ShapeMismatch from a check of its own
C17_ShapeMismatchByOwnCheck ==
    (ret.op = "predict_model" /\ ret.status = "error") => ret.err = "ShapeMismatch"

\* C18: a stacking call that failed returned nothing, left the log as long
\* as it was, and left every object in the fitted state it had before
C18_FailureLeavesNothing ==
    (Stacked /\ ret.status = "error")
    => /\ ret.val = <<>>
       /\ Len(experiment__) = ret.call.log
       /\ \A i \in 1..Len(ret.call.pre) : est[i].fit = ret.call.pre[i]

\* the sets of seq ts are pairwise disjoint
Disjoint(ts) == \A a, b \in 1..Len(ts) : a # b => ts[a] \cap ts[b] = {}

\* C19: for 2 <= K <= N the K test sets a fold derivation yields, for
\* out-of-fold prediction and for the meta cross-validation alike, are
\* pairwise disjoint and together are exactly 0..N-1
C19_FoldsPartitionRows ==
    /\ Disjoint(kfold.tests)
    /\ kfold.j = kfold.k => UNION Range(kfold.tests) = AllRows(kfold.n)

\* a derivation of three folds over seven rows, uneven blocks, is complete
C19_Witness ==
    kfold.n = 7 /\ kfold.k = 3 /\ kfold.j = 3 /\ kfold.via = "cross_val_predict"

\* C20: within a stacking call the folds derived for each base and each
\* intermediate estimator's out-of-fold predictions and for the meta
\* estimator's cross-validation are one and the same partition, that of
\* (N, K), whatever the seed
C20_OnePartitionPerCall ==
    tr.pc \in {"cv", "finish"} =>
        /\ \A a \in 1..Len(tr.oof) : tr.oof[a] = tr.kf
        /\ \A j \in 1..Len(tr.kf) : tr.kf[j].test = TestRows(NRows(tr.data), tr.fold, j)
        /\ Len(tr.kf) = tr.fold

\* a net of two levels cross-validates its meta estimator after setup() was
\* called again, three estimators having been given out-of-fold predictions
C20_Witness ==
    tr.fn = "create_stacknet" /\ tr.pc = "cv" /\ Len(tr.oof) = 3 /\ tr.data[1] = 2

(* C21: no leakage.  While a stacking call runs, every out-of-fold column
   computed so far gives each training row exactly one prediction, made by
   a copy fit on rows that do not contain that row, and the estimator the
   column belongs to, the one that goes into the container, still holds
   the fit on all rows that it got before the column was computed. *)
C21_NoLeakage ==
    tr.pc # "idle" =>
        LET n == NRows(tr.data)
            order == Flatten(tr.levels)
        IN \A a \in 1..Len(tr.oof) :
             /\ \A r \in AllRows(n) :
                    /\ Cardinality({j \in 1..Len(tr.oof[a]) : r \in tr.oof[a][j].test}) = 1
                    /\ \A j \in 1..Len(tr.oof[a]) :
                           r \in tr.oof[a][j].test => r \notin tr.oof[a][j].train
             /\ est[order[a]].fit # Unfit
             /\ est[order[a]].fit.rows = AllRows(n)

C21_Witness ==
    /\ tr.fn = "create_stacknet" /\ tr.pc = "metafit"
    /\ Len(tr.oof) = 3 /\ tr.fold = 3

(* C22: a stacking call with fold = K that returns has run exactly K
   rounds of the meta cross-validation, and the score grid it appends to
   the log has K + 2 rows with the columns MAE, MSE, RMSE, R2, ME: row j
   (1..K) holds the scores of round j, the model fit on the training rows
   of fold j and scored on its test rows, and the last two rows are Mean
   and SD over the K rounds. *)
C22_Returning ==
    tr.pc = "finish" /\ tr'.pc = "idle" =>
        LET K == tr.fold
            n == NRows(tr.data)
            grid == experiment__'[Len(experiment__')].rows
        IN /\ Len(experiment__') = Len(experiment__) + 2
           /\ tr.fold_num = K + 1
           /\ Len(grid) = K + 2
           /\ \A j \in 1..Len(grid) : grid[j].cols = ScoreCols
           /\ \A j \in 1..K :
                  /\ grid[j].index = "fold"
                  /\ grid[j].test = TestRows(n, K, j)
                  /\ grid[j].fit = TrainRows(n, K, j)
           /\ grid[K + 1].index = "Mean" /\ grid[K + 1].test = 1..K
           /\ grid[K + 2].index = "SD" /\ grid[K + 2].test = 1..K

C22_ScoreGridRows == [][C22_Returning]_vars

C22_Witness ==
    /\ ReturnedOk("create_stacknet")
    /\ Len(experiment__) = ret.call.log + 2
    /\ ret.call.fold = 3
    /\ Len(experiment__[Len(experiment__)].rows) = 5

\* the module tables
Module == {"X", "y", "X_train", "y_train", "X_test", "y_test"}

\* C23, the table trained on: while a stacking call runs, data_X and
\* data_y are X_train and y_train (finalize false) or X and y (finalize
\* true) with the rows in the same order and labelled 0.., and every
\* base and intermediate estimator fit so far is fit on those rows
C23_OnResetCopy ==
    tr.pc # "idle" =>
        LET X_ == IF tr.finalize THEN frames.X ELSE frames.X_train
            y_ == IF tr.finalize THEN frames.y ELSE frames.y_train
            n == Len(X_.index)
            order == Flatten(tr.levels)
        IN /\ frames.data_X = ResetIndex(X_) /\ frames.data_y = ResetIndex(y_)
           /\ frames.data_X.index = [i \in 1..n |-> i - 1]
           /\ tr.data = <<X_.ver, IF tr.finalize THEN "full" ELSE "train">>
           /\ NRows(tr.data) = n
           /\ \A a \in 1..Len(tr.oof) :
                  /\ est[order[a]].fit # Unfit
                  /\ est[order[a]].fit.data = tr.data
                  /\ est[order[a]].fit.rows = AllRows(n)

\* C23, the module tables: no step but setup() changes X, y, X_train,
\* y_train (nor X_test, y_test)
C23_ModuleTablesKept ==
    ver' = ver => \A t \in Module : frames'[t] = frames[t]

(* C23: stacking trains on (X_train, y_train) when finalize is false and on
   (X, y) when it is true, always on an index-reset copy, and leaves the
   module tables X, y, X_train, y_train as they were. *)
C23_TrainsOnCopy == [](C23_OnResetCopy) /\ [][C23_ModuleTablesKept]_vars

C23_Witness ==
    /\ tr.fn = "create_stacknet" /\ tr.pc = "cv" /\ ~tr.finalize
    /\ frames.X_train.index # frames.data_X.index
    /\ Len(frames.data_X.index) = NTrain

\* the step on which finalize_model, called by the user on a stack
\* container, returns
FinalizeReturns == fm.pc = "ret" /\ fm.via = "finalize" /\ fm'.pc = "idle"

\* the levels, the estimator types in each and the restack flag
ShapeOf(heap, c) ==
    [i \in 1..Len(c) |->
        IF c[i].k = "est" THEN <<heap[c[i].id].typ>>
        ELSE IF c[i].k = "level" THEN [j \in 1..Len(c[i].ids) |-> heap[c[i].ids[j]].typ]
        ELSE <<c[i].flag>>]

\* C24 without the training part: the container finalize_model returns
\* has the shape of its input and shares no estimator with it, and the
\* input's estimators are fit as they were before the call
C24_NewContainerInputKept ==
    FinalizeReturns =>
        /\ ShapeOf(est', ret'.val) = ShapeOf(est', fm.estimator)
        /\ IdsOf(ret'.val) \cap IdsOf(fm.estimator) = {}
        /\ \A id \in IdsOf(fm.estimator) : est'[id].fit = fm.pre[id]

\* C24, the training part for the base and intermediate estimators
C24_LevelsOnFullData ==
    FinalizeReturns =>
        \A id \in IdsOf(ret'.val) \ {PopMeta(ret'.val)} :
            /\ est'[id].fit # Unfit
            /\ est'[id].fit.data = <<ver, "full">>
            /\ est'[id].fit.rows = AllRows(NAll)

C24_FinalizeReturning ==
    FinalizeReturns =>
        /\ ShapeOf(est', ret'.val) = ShapeOf(est', fm.estimator)
        /\ IdsOf(ret'.val) \cap IdsOf(fm.estimator) = {}
        /\ \A id \in IdsOf(fm.estimator) : est'[id].fit = fm.pre[id]
        /\ \A id \in IdsOf(ret'.val) :
               /\ est'[id].fit # Unfit
               /\ est'[id].fit.data = <<ver, "full">>
               /\ est'[id].fit.rows = AllRows(NAll)

(* C24: finalize_model on a stack container returns a new container with
   the levels, the estimators per level and the restack flag of its input,
   every estimator of it trained on the full data set, and leaves the
   input container and the estimators in it as they were. *)
C24_FinalizeStack == [][C24_FinalizeReturning]_vars

(* C25: a predict_model call over M input rows that returns gives M rows,
   row i holding input row i and prediction i (one prediction per row,
   in input order), with Label as the last column; the predictions are
   made by the meta estimator, the last to predict after the base level
   and every further level predicted in container order. *)
C25_LabelPerInputRow ==
    \A i \in Plog :
        LET p == plog[i]
            M == NRows(p.data)
        IN /\ Len(p.out.rows) = M
           /\ \A r \in 1..M : p.out.rows[r] = [row |-> r, pred |-> r]
           /\ p.out.cols[Len(p.out.cols)] = "Label"
           /\ p.order = ContIds(p.model)
           /\ p.order[Len(p.order)] = PopMeta(p.model)
           /\ p.used[Len(p.used)].id = PopMeta(p.model)

C25_Witness ==
    \E i \in Plog :
        /\ IsMulti(plog[i].model) /\ Len(plog[i].model) = 4
        /\ Len(plog[i].order) = 3
        /\ Len(plog[i].out.rows) = NHold

(* C26: in create_stacknet the list of base-level column names has one
   entry per base estimator, entry i made from the type name of base
   estimator i (CatBoost's shortened to CatBoostRegressor), and no call
   fails on looking a name up. *)
C26_OneNamePerBaseEstimator ==
    /\ tr.fn = "create_stacknet" =>
           LET level == tr.levels[1]
           IN /\ Len(tr.names) = Len(level)
              /\ \A i \in 1..Len(level) :
                     i <= Len(tr.names) =>
                         tr.names[i] = <<CatFix(StrName(est[level[i]].typ)), i - 1>>
    /\ ret.op = "create_stacknet" => ret.err # "IndexError"

\* the step on which predict_model, called on a multi-layer container,
\* returns or raises
C27_Leaving ==
    (pm.pc # "idle" /\ pm'.pc = "idle") =>
        (IsMulti(pm.estimator) =>
            /\ ret'.status = "ok"
            /\ LET p == plog'[Len(plog')]
                   meta == p.used[Len(p.used)]
               IN /\ meta.id = PopMeta(pm.model)
                  /\ Len(meta.cols) = Len(est[meta.id].fit.cols))

(* C27: predict_model returns a prediction for every container
   create_stacknet returned, one with a base level and no further level
   included, with restack true or false: the meta estimator predicts on
   a table as wide as the one it was fit on, and no step falls back on a
   table that was never built. *)
C27_PredictsEveryStacknet == [][C27_Leaving]_vars

\* the names of the two log entries of a stacking call
LogNames == {<<"Stacking Regressor (Single Layer)",
               "Stacking Regressor (Single Layer) Score Grid">>,
             <<"Stacking Regressor (Multi Layer)",
               "Stacking Regressor (Multi Layer) Score Grid">>}

\* C28 on one step: unless the step is setup(), the log keeps every entry
\* it had, in place; the step on which a stacking call returns appends
\* the container under the call's name and then the score grid, and no
\* other step of a stacking call, returning or failing, changes the log
C28_LogStep ==
    ver' = ver =>
        /\ IsPrefix(experiment__, experiment__')
        /\ tr.pc = "finish" =>
               LET n == Len(experiment__)
               IN /\ Len(experiment__') = n + 2
                  /\ <<experiment__'[n + 1].name, experiment__'[n + 2].name>> \in LogNames
                  /\ experiment__'[n + 1].cont = hist'[Len(hist')].cont
                  /\ experiment__'[n + 1].rows = <<>>
                  /\ experiment__'[n + 2].cont = <<>>
                  /\ Len(experiment__'[n + 2].rows) = tr.fold + 2
        /\ (tr.pc \notin {"idle", "finish"} \/ tr'.pc # "idle")
               => experiment__' = experiment__
        /\ (ret' # ret /\ ret'.status = "error") => experiment__' = experiment__

(* C28: the experiment log is append-only: a stacking call that returns
   adds exactly two entries, (name, container) and then (name Score Grid,
   score grid), and no stacking, finalize or predict step removes or
   reorders an earlier entry. *)
C28_LogAppendOnly == [][C28_LogStep]_vars

C28_Witness ==
    /\ Len(experiment__) = Len(SetupLog) + 5
    /\ experiment__[Len(experiment__)].name = "Final"
    /\ experiment__[Len(SetupLog) + 2].rows # <<>>

\* predict_model is running on this step
PMRunning == pm.pc # "idle" \/ pm'.pc # "idle"

\* the container predict_model was called with
PMArg == IF pm.pc # "idle" THEN pm.estimator ELSE pm'.estimator

\* C29 without the log: a step of predict_model leaves the container it
\* was given, and the fitted state of every estimator in it, as they were
C29_ContainerKept ==
    PMRunning => \A id \in IdsOf(PMArg) : est'[id] = est[id]

C29_Step ==
    PMRunning =>
        /\ experiment__' = experiment__
        /\ \A id \in IdsOf(PMArg) : est'[id] = est[id]

(* C29: predict_model is read-only: called with data = None or with a
   data table, no step of it changes the experiment log, the container it
   was given or the fitted state of the container's estimators. *)
C29_PredictReadOnly == [][C29_Step]_vars

(* C30: at every point of a stack_models or create_stacknet call the
   progress counter, one when the call starts and raised by one at every
   progress.value += 1, is at most max_progress =
   len(estimator_list) + fold + 4. *)
C30_ProgressWithinMax ==
    tr.pc # "idle" => tr.progress <= tr.max_progress

\* C30 for stack_models alone
C30_SingleLayerWithinMax ==
    tr.fn = "stack_models" => tr.progress <= tr.max_progress

====
